---- MODULE Spec2Model ----
(***************************************************************************)
(* The audio-capture lifecycle of the IELTS speaking-practice tool: the    *)
(* useAudioRecorder hook (start / stop / fallback / clear / forceReset /   *)
(* getAudioBlob) together with the callbacks the platform delivers to it   *)
(* (getUserMedia grant, MediaRecorder dataavailable and stop events,       *)
(* setInterval and setTimeout callbacks) and the AudioRecorder component   *)
(* that drives it (buttons, auto-stop effect, reset effect, save); and the  *)
(* App component that hosts it: useIELTSQuestions (question list, current  *)
(* index, navigation, delete-then-refetch), useRecordingHistory (the list  *)
(* of the current question's recordings) and the views App switches to.    *)
(*                                                                         *)
(* Everything runs on one UI thread: every action below is one task of the *)
(* event loop, run to completion.                                          *)
(***************************************************************************)
EXTENDS Integers, Sequences, FiniteSets, TLC

(* ------------------------------ bounds -------------------------------- *)
MaxStarts == 2      \* getUserMedia grants over the whole run
MaxChunks == 1      \* timeslice dataavailable events per recorder (the final one on stop comes on top)
MaxDuration == 2    \* cap on the duration counter
TimeLimit == 2      \* question.time_limit, scaled down
MaxSaves == 2       \* handleSaveRecording calls in flight at a time
ChunkSize == 2      \* event.data.size of a non-empty chunk
MaxQuestions == 3   \* rows of ielts_questions when the app starts, serial numbers 1 .. MaxQuestions
MaxDeletes == 1     \* questions deleted over the whole run
StoredRecordings == 6   \* rows of user_recordings of question 1 when the app starts
HistoryLimit == 5   \* .limit(5) of fetchRecordings
HistoryStarts == 1  \* captures started in HistorySpec

Ids == 1 .. MaxStarts           \* the k-th grant creates stream k, context k, recorder k, interval k
NoRef == 0                      \* a ref holding null
NoUrl == 0                      \* recordingState.audioUrl = null
NoQuestion == 0                 \* currentQuestion = null (questionId '')
Faults == {"none", "stop", "track", "close", "revoke"}   \* the release step that throws, if any
SetupSteps == {"none", "context", "recorder"}            \* the setup step of start that throws, if any

(* ------------------------------ state --------------------------------- *)
VARIABLES
  recordingState,    \* useState: [isRecording, isPaused, duration, audioUrl, isUploading]
  audioLevel,        \* useState: 0 = silent, 1 = a non-zero sample
  mediaRecorderRef,  \* useRef: recorder id or NoRef
  streamRef,         \* useRef: stream id or NoRef
  chunksRef,         \* useRef: the Blob[] of chunks
  intervalRef,       \* useRef: interval id or NoRef
  audioContextRef,   \* useRef: context id or NoRef
  analyserRef,       \* useRef: analyser id or NoRef
  recorders,         \* platform: every MediaRecorder created: state, onstop handler, queued events
  liveStreams,       \* platform: streams with a live track
  activeIntervals,   \* platform: armed setInterval timers
  openContexts,      \* platform: AudioContexts not closed
  fallbackTimers,    \* platform: pending 2000 ms fallback timeouts, by recorder
  assembleTimers,    \* platform: pending 100 ms timeouts armed by onstop, by recorder
  objectUrls,        \* platform: object URLs created and not revoked
  animationFrames,   \* platform: analysers whose updateAudioLevel has a frame requested
  artifact,          \* platform: the Blob behind the object URL in recordingState.audioUrl
  nextUrl,           \* platform: next object URL to hand out
  nextId,            \* platform: next stream / recorder id to hand out
  pendingStarts,     \* startRecording calls suspended at await getUserMedia
  savesInFlight,     \* handleSaveRecording calls suspended at an await
  questions,         \* useIELTSQuestions useState: the serial numbers loaded, in order
  currentQuestionIndex,  \* useIELTSQuestions useState (0-based)
  loading,           \* useIELTSQuestions useState
  error,             \* useIELTSQuestions useState: TRUE when a message is set
  showBulkEntry,     \* App useState
  isDeleting,        \* QuestionDisplay useState
  recordings,        \* useRecordingHistory useState: the history list shown
  dbQuestions,       \* backend: serial numbers of the rows of ielts_questions
  dbRecordings,      \* backend: rows of user_recordings, newest first
  questionFetches,   \* fetchQuestions calls suspended at the select, with what follows them
  historyFetches,    \* fetchRecordings calls suspended at the select, by question id
  deletes,           \* handleDelete calls suspended at the delete, with their closure
  savingFor,         \* question.id in the closure of each suspended handleSaveRecording
  unmounted,         \* recorders / streams created by hook instances that have been unmounted
  last               \* history: the handler that ran in the last step and whether it threw

hostVars == <<questions, currentQuestionIndex, loading, error, showBulkEntry, isDeleting,
              recordings, dbQuestions, dbRecordings, questionFetches, historyFetches, deletes,
              savingFor, unmounted>>

vars == <<recordingState, audioLevel, mediaRecorderRef, streamRef, chunksRef, intervalRef,
          audioContextRef, analyserRef, recorders, liveStreams, activeIntervals, openContexts,
          fallbackTimers, assembleTimers, objectUrls, animationFrames, artifact, nextUrl, nextId,
          pendingStarts,
          savesInFlight, last, hostVars>>

\* The hook's and the platform's state as one value, so that handlers compose.
St == [recordingState |-> recordingState, audioLevel |-> audioLevel,
       mediaRecorderRef |-> mediaRecorderRef, streamRef |-> streamRef, chunksRef |-> chunksRef,
       intervalRef |-> intervalRef, audioContextRef |-> audioContextRef,
       analyserRef |-> analyserRef, recorders |-> recorders, liveStreams |-> liveStreams,
       activeIntervals |-> activeIntervals, openContexts |-> openContexts,
       fallbackTimers |-> fallbackTimers, assembleTimers |-> assembleTimers,
       objectUrls |-> objectUrls, animationFrames |-> animationFrames,
       artifact |-> artifact, nextUrl |-> nextUrl, nextId |-> nextId]

CommitHook(st) ==
  /\ recordingState' = st.recordingState
  /\ audioLevel' = st.audioLevel
  /\ mediaRecorderRef' = st.mediaRecorderRef
  /\ streamRef' = st.streamRef
  /\ chunksRef' = st.chunksRef
  /\ intervalRef' = st.intervalRef
  /\ audioContextRef' = st.audioContextRef
  /\ analyserRef' = st.analyserRef
  /\ recorders' = st.recorders
  /\ liveStreams' = st.liveStreams
  /\ activeIntervals' = st.activeIntervals
  /\ openContexts' = st.openContexts
  /\ fallbackTimers' = st.fallbackTimers
  /\ assembleTimers' = st.assembleTimers
  /\ objectUrls' = st.objectUrls
  /\ animationFrames' = st.animationFrames
  /\ artifact' = st.artifact
  /\ nextUrl' = st.nextUrl
  /\ nextId' = st.nextId

\* The state of App and of the backend as one value.
Host == [questions |-> questions, currentQuestionIndex |-> currentQuestionIndex,
         loading |-> loading, error |-> error, showBulkEntry |-> showBulkEntry,
         isDeleting |-> isDeleting, recordings |-> recordings, dbQuestions |-> dbQuestions,
         dbRecordings |-> dbRecordings, questionFetches |-> questionFetches,
         historyFetches |-> historyFetches, deletes |-> deletes, savingFor |-> savingFor,
         unmounted |-> unmounted]

CommitHost(h) ==
  /\ questions' = h.questions
  /\ currentQuestionIndex' = h.currentQuestionIndex
  /\ loading' = h.loading
  /\ error' = h.error
  /\ showBulkEntry' = h.showBulkEntry
  /\ isDeleting' = h.isDeleting
  /\ recordings' = h.recordings
  /\ dbQuestions' = h.dbQuestions
  /\ dbRecordings' = h.dbRecordings
  /\ questionFetches' = h.questionFetches
  /\ historyFetches' = h.historyFetches
  /\ deletes' = h.deletes
  /\ savingFor' = h.savingFor
  /\ unmounted' = h.unmounted

\* A step of the recorder that no state of App depends on.
Commit(st) == CommitHook(st) /\ UNCHANGED hostVars

InitialRecordingState ==
  [isRecording |-> FALSE, isPaused |-> FALSE, duration |-> 0, audioUrl |-> NoUrl,
   isUploading |-> FALSE]

\* A MediaRecorder: state; which onstop handler is installed; where its final events
\* are ("idle": none queued, "data": final dataavailable queued, "stop": stop event
\* queued, "done": both delivered); how many non-empty chunks it has delivered.
NoRecorder == [state |-> "none", onstop |-> "original", flush |-> "idle", sent |-> 0]

\* A row of user_recordings.
Recording(n, q) == [id |-> n, question_id |-> q]

\* user_recordings when the app starts: StoredRecordings rows of question 1.
StoredRows == [k \in 1 .. StoredRecordings |-> Recording(StoredRecordings + 1 - k, 1)]

\* useAudioRecorder after its first render, the platform untouched.
HookInit ==
  /\ recordingState = InitialRecordingState
  /\ audioLevel = 0
  /\ mediaRecorderRef = NoRef
  /\ streamRef = NoRef
  /\ chunksRef = <<>>
  /\ intervalRef = NoRef
  /\ audioContextRef = NoRef
  /\ analyserRef = NoRef
  /\ recorders = [r \in Ids |-> NoRecorder]
  /\ liveStreams = {}
  /\ activeIntervals = {}
  /\ openContexts = {}
  /\ fallbackTimers = {}
  /\ assembleTimers = {}
  /\ objectUrls = {}
  /\ animationFrames = {}
  /\ artifact = <<>>
  /\ nextUrl = 1
  /\ nextId = 1
  /\ pendingStarts = 0
  /\ savesInFlight = 0
  /\ last = [op |-> "init", threw |-> FALSE]

\* A fetchQuestions call in flight: what runs after it (nothing, or the rest of
\* handleQuestionDeleted with the currentQuestionIndex and questions.length of its render).
QuestionFetch(then, idx, len) == [then |-> then, idx |-> idx, len |-> len]

\* App after its first render: loading, the mount effect's fetchQuestions in flight,
\* no AudioRecorder yet.
AppInit ==
  /\ HookInit
  /\ questions = <<>>
  /\ currentQuestionIndex = 0
  /\ loading = TRUE
  /\ error = FALSE
  /\ showBulkEntry = FALSE
  /\ isDeleting = FALSE
  /\ recordings = <<>>
  /\ dbQuestions = 1 .. MaxQuestions
  /\ dbRecordings = StoredRows
  /\ questionFetches = {QuestionFetch("none", 0, 0)}
  /\ historyFetches = {}
  /\ deletes = {}
  /\ savingFor = <<>>
  /\ unmounted = {}

\* AudioRecorder after its first render: the questions have loaded, question 1 is
\* shown and its history is being fetched.
Init ==
  /\ HookInit
  /\ questions = [i \in 1 .. MaxQuestions |-> i]
  /\ currentQuestionIndex = 0
  /\ loading = FALSE
  /\ error = FALSE
  /\ showBulkEntry = FALSE
  /\ isDeleting = FALSE
  /\ recordings = <<>>
  /\ dbQuestions = 1 .. MaxQuestions
  /\ dbRecordings = StoredRows
  /\ questionFetches = {}
  /\ historyFetches = {1}
  /\ deletes = {}
  /\ savingFor = <<>>
  /\ unmounted = {}

(* --------------------------- pure helpers ----------------------------- *)
\* The k-th non-empty chunk recorder r delivers, and its bytes.
Chunk(r, k) == [rec |-> r, seq |-> k, size |-> ChunkSize]
Bytes(c) == [i \in 1 .. c.size |-> <<c.rec, c.seq, i>>]

\* new Blob(parts): the parts' bytes, concatenated in order.
RECURSIVE Blob(_)
Blob(parts) ==
  IF parts = <<>> THEN <<>> ELSE Bytes(Head(parts)) \o Blob(Tail(parts))

\* MediaRecorder.stop() on a recorder: a recording one becomes inactive and queues
\* its final dataavailable followed by its stop event.
RecorderStop(st, r) ==
  IF st.recorders[r].state = "recording"
    THEN [st EXCEPT !.recorders[r].state = "inactive", !.recorders[r].flush = "data"]
    ELSE st

\* stream.getTracks().forEach(track => track.stop()): the stream is no longer live;
\* a recorder still recording it ends by itself (all its tracks ended).
StopTracks(st, s) ==
  RecorderStop([st EXCEPT !.liveStreams = @ \ {s}], s)

\* clearInterval(intervalRef.current); intervalRef.current = null
ClearInterval(st) ==
  IF st.intervalRef # NoRef
    THEN [st EXCEPT !.activeIntervals = @ \ {st.intervalRef}, !.intervalRef = NoRef]
    ELSE st

\* URL.createObjectURL(blob) followed by setRecordingState({...prev, audioUrl, isRecording: false})
PublishArtifact(st) ==
  [st EXCEPT !.artifact = Blob(st.chunksRef),
             !.objectUrls = @ \cup {st.nextUrl},
             !.nextUrl = @ + 1,
             !.recordingState.audioUrl = st.nextUrl,
             !.recordingState.isRecording = FALSE]

(* ------------------------- the hook's handlers ------------------------ *)
\* handleStopFallback: assemble whatever chunks are held, or give up.
handleStopFallback(st) ==
  LET s1 == IF Len(st.chunksRef) > 0
              THEN PublishArtifact(st)
              ELSE [st EXCEPT !.recordingState.isRecording = FALSE]
  IN [s1 EXCEPT !.audioLevel = 0]

\* The callback mediaRecorder.onstop arms with setTimeout(..., 100).
onstopDelayed(st) ==
  IF Len(st.chunksRef) = 0
    THEN [st EXCEPT !.recordingState.isRecording = FALSE]
    ELSE IF Len(Blob(st.chunksRef)) = 0
      THEN [st EXCEPT !.recordingState.isRecording = FALSE]
      ELSE [PublishArtifact(st) EXCEPT !.audioLevel = 0]

\* stopRecording, with the recordingState of the current render.
stopRecording(st) ==
  IF st.mediaRecorderRef # NoRef /\ st.recordingState.isRecording
    THEN LET r  == st.mediaRecorderRef
             s1 == ClearInterval(st)
             s2 == IF s1.recorders[r].state = "recording"
                     THEN RecorderStop([s1 EXCEPT !.fallbackTimers = @ \cup {r},
                                                  !.recorders[r].onstop = "wrapped"], r)
                     ELSE handleStopFallback(s1)
             s3 == IF s2.streamRef # NoRef THEN StopTracks(s2, s2.streamRef) ELSE s2
         IN s3     \* audioContextRef.current.close() is commented out
    ELSE st

\* An AudioRecorder without the auto-stop effect.
AutoStopEffectOff(st) == st

\* The auto-stop effect of AudioRecorder, run after a render in which duration changed.
AutoStopEffect(st) ==
  IF st.recordingState.isRecording /\ st.recordingState.duration >= TimeLimit
    THEN stopRecording(st)
    ELSE st

\* The tail shared by clearRecording and forceReset: refs and state back to initial
\* (with audioUrl null no Blob is reachable through it any more).
ResetRefsAndState(st) ==
  [st EXCEPT !.mediaRecorderRef = NoRef, !.analyserRef = NoRef, !.chunksRef = <<>>,
             !.recordingState = InitialRecordingState, !.audioLevel = 0,
             !.artifact = <<>>]

\* clearRecording: no step is guarded, so the first step that throws ends the call.
\* Result: the state reached and whether the call threw.
clearRecording(st, fault) ==
  LET url == st.recordingState.audioUrl
      rec == st.recordingState.isRecording
      Throw(s) == [st |-> s, threw |-> TRUE]
      s1 == IF url # NoUrl THEN [st EXCEPT !.objectUrls = @ \ {url}] ELSE st
      s2 == IF s1.mediaRecorderRef # NoRef /\ rec
              THEN RecorderStop(s1, s1.mediaRecorderRef) ELSE s1
      s3 == IF s2.streamRef # NoRef
              THEN [StopTracks(s2, s2.streamRef) EXCEPT !.streamRef = NoRef] ELSE s2
      s4 == ClearInterval(s3)
      s5 == IF s4.audioContextRef # NoRef
              THEN [s4 EXCEPT !.openContexts = @ \ {s4.audioContextRef},
                              !.audioContextRef = NoRef]
              ELSE s4
  IN IF url # NoUrl /\ fault = "revoke" THEN Throw(st)
     ELSE IF s1.mediaRecorderRef # NoRef /\ rec /\ fault = "stop" THEN Throw(s1)
     ELSE IF s2.streamRef # NoRef /\ fault = "track" THEN Throw(s2)
     ELSE IF s4.audioContextRef # NoRef /\ fault = "close" THEN Throw(s4)
     ELSE [st |-> ResetRefsAndState(s5), threw |-> FALSE]

\* forceReset: every release step sits in its own try/catch; a step that throws has
\* no effect and the call goes on.
forceReset(st, fault) ==
  LET url == st.recordingState.audioUrl
      rec == st.recordingState.isRecording
      s1 == IF st.mediaRecorderRef # NoRef /\ rec /\ fault # "stop"
              THEN RecorderStop(st, st.mediaRecorderRef) ELSE st
      s2 == IF s1.streamRef # NoRef
              THEN [(IF fault # "track" THEN StopTracks(s1, s1.streamRef) ELSE s1)
                      EXCEPT !.streamRef = NoRef]
              ELSE s1
      s3 == ClearInterval(s2)
      s4 == [s3 EXCEPT !.audioContextRef = NoRef]   \* close() is commented out
      s5 == IF url # NoUrl /\ fault # "revoke"
              THEN [s4 EXCEPT !.objectUrls = @ \ {url}] ELSE s4
  IN ResetRefsAndState(s5)

\* An ondataavailable that keeps only the newest chunk.
ondataavailableReplaces(st, r, size) ==
  LET s1 == IF size > 0
              THEN [st EXCEPT !.chunksRef = <<Chunk(r, st.recorders[r].sent + 1)>>,
                              !.recorders[r].sent = @ + 1]
              ELSE st
  IN [s1 EXCEPT !.recorders[r].flush = IF @ = "data" THEN "stop" ELSE @]

\* mediaRecorder.ondataavailable of recorder r, with event.data.size = size.
ondataavailable(st, r, size) ==
  LET s1 == IF size > 0
              THEN [st EXCEPT !.chunksRef = Append(@, Chunk(r, st.recorders[r].sent + 1)),
                              !.recorders[r].sent = @ + 1]
              ELSE st
  IN [s1 EXCEPT !.recorders[r].flush = IF @ = "data" THEN "stop" ELSE @]

\* A getAudioBlob that leaves out the first chunk.
getAudioBlobTail(st) ==
  IF Len(st.chunksRef) > 0 THEN Blob(Tail(st.chunksRef)) ELSE <<>>

\* getAudioBlob: a Blob of the chunks held, or null (the empty sequence here: a Blob
\* of chunks is never empty, every chunk pushed has size > 0).
getAudioBlob(st) ==
  IF Len(st.chunksRef) > 0 THEN Blob(st.chunksRef) ELSE <<>>

\* updateAudioLevel, the closure startRecording creates: set the level to the sample
\* read from the analyser, then request the next frame if the recordingState of the
\* render that created startRecording says isRecording.
updateAudioLevel(st, sample, closureIsRecording) ==
  LET s1 == IF st.analyserRef # NoRef THEN [st EXCEPT !.audioLevel = sample] ELSE st
  IN IF closureIsRecording
       THEN [s1 EXCEPT !.animationFrames = @ \cup {st.analyserRef}]
       ELSE s1

\* startRecording without chunksRef.current = [] and without duration: 0.
startGrantedKeepsOld(st, failAt, sample, closureIsRecording) ==
  LET id == st.nextId
      s1 == [st EXCEPT !.streamRef = id, !.liveStreams = @ \cup {id}, !.nextId = @ + 1]
      s2 == [s1 EXCEPT !.audioContextRef = id, !.openContexts = @ \cup {id},
                       !.analyserRef = id]
      s3 == [s2 EXCEPT !.mediaRecorderRef = id,
                       !.recorders[id] = [state |-> "recording", onstop |-> "original",
                                          flush |-> "idle", sent |-> 0]]
      s4 == [s3 EXCEPT !.audioLevel = sample]
      s5 == [s4 EXCEPT !.recordingState.isRecording = TRUE]
      s6 == [s5 EXCEPT !.intervalRef = id, !.activeIntervals = @ \cup {id}]
  IN IF failAt = "context" THEN [st |-> s1, threw |-> TRUE]
     ELSE IF failAt = "recorder" THEN [st |-> s2, threw |-> TRUE]
     ELSE [st |-> s6, threw |-> FALSE]

\* startRecording after getUserMedia resolved with a stream. failAt: the setup step
\* that throws ("none", "context": new AudioContext, "recorder": new MediaRecorder);
\* sample: what updateAudioLevel reads; closureIsRecording: recordingState.isRecording
\* of the render that created this startRecording.
startGranted(st, failAt, sample, closureIsRecording) ==
  LET id == st.nextId
      s1 == [st EXCEPT !.streamRef = id, !.liveStreams = @ \cup {id}, !.nextId = @ + 1]
      s2 == [s1 EXCEPT !.audioContextRef = id, !.openContexts = @ \cup {id},
                       !.analyserRef = id]
      s3 == [s2 EXCEPT !.mediaRecorderRef = id, !.chunksRef = <<>>,
                       !.recorders[id] = [state |-> "recording", onstop |-> "original",
                                          flush |-> "idle", sent |-> 0]]
      s4 == updateAudioLevel(s3, sample, closureIsRecording)
      s5 == [s4 EXCEPT !.recordingState.isRecording = TRUE,
                       !.recordingState.duration = 0]
      s6 == [s5 EXCEPT !.intervalRef = id, !.activeIntervals = @ \cup {id}]
  IN IF failAt = "context" THEN [st |-> s1, threw |-> TRUE]
     ELSE IF failAt = "recorder" THEN [st |-> s2, threw |-> TRUE]
     ELSE [st |-> s6, threw |-> FALSE]

(* ------------------------------ the host ------------------------------ *)
\* questions[currentQuestionIndex] || null
currentQuestion(h) ==
  IF h.currentQuestionIndex + 1 \in DOMAIN h.questions
    THEN h.questions[h.currentQuestionIndex + 1] ELSE NoQuestion

\* App renders its main view, the one that holds QuestionDisplay, NavigationControls,
\* AudioRecorder and RecordingHistory: none of its early returns is taken.
MainView(h) ==
  /\ ~h.showBulkEntry
  /\ ~h.loading
  /\ ~h.error
  /\ currentQuestion(h) # NoQuestion

\* .order('serial_number') over the rows S.
OrderBySerial(S) ==
  [i \in 1 .. Cardinality(S) |-> CHOOSE x \in S : Cardinality({y \in S : y < x}) = i - 1]

\* questions.findIndex(q => q.serial_number === serialNumber)
findIndex(qs, serialNumber) ==
  IF \E i \in DOMAIN qs : qs[i] = serialNumber
    THEN (CHOOSE i \in DOMAIN qs : qs[i] = serialNumber) - 1
    ELSE -1

\* jumpToQuestion: the state it leaves and the value it returns.
jumpToQuestion(h, serialNumber) ==
  LET index == findIndex(h.questions, serialNumber)
  IN IF index # -1
       THEN [h |-> [h EXCEPT !.currentQuestionIndex = index], ok |-> TRUE]
       ELSE [h |-> h, ok |-> FALSE]

\* nextQuestion
nextQuestion(h) ==
  IF h.currentQuestionIndex < Len(h.questions) - 1
    THEN [h |-> [h EXCEPT !.currentQuestionIndex = @ + 1], ok |-> TRUE]
    ELSE [h |-> h, ok |-> FALSE]

\* previousQuestion
previousQuestion(h) ==
  IF h.currentQuestionIndex > 0
    THEN [h |-> [h EXCEPT !.currentQuestionIndex = @ - 1], ok |-> TRUE]
    ELSE [h |-> h, ok |-> FALSE]

\* handleJump of NavigationControls with the number typed: it must lie in
\* 1 .. totalQuestions before jumpToQuestion is asked for that serial number.
handleJump(h, questionNumber) ==
  IF questionNumber < 1 \/ questionNumber > Len(h.questions)
    THEN [h |-> h, ok |-> FALSE]
    ELSE jumpToQuestion(h, questionNumber)

\* fetchQuestions up to its await.
fetchQuestions(h, then, idx, len) ==
  [h EXCEPT !.loading = TRUE, !.error = FALSE,
            !.questionFetches = @ \cup {QuestionFetch(then, idx, len)}]

\* The rest of handleQuestionDeleted, with the index and length of its closure.
adjustIndexAfterDelete(h, idx, len) ==
  IF idx >= len - 1 /\ idx > 0
    THEN [h EXCEPT !.currentQuestionIndex = @ - 1]
    ELSE IF len <= 1 THEN [h EXCEPT !.currentQuestionIndex = 0] ELSE h

\* fetchQuestions after its await, followed by what awaited it.
fetchQuestionsSettled(h, f, ok) ==
  LET h1 == IF ok THEN [h EXCEPT !.questions = OrderBySerial(h.dbQuestions)]
                  ELSE [h EXCEPT !.error = TRUE]
      h2 == [h1 EXCEPT !.loading = FALSE, !.questionFetches = @ \ {f}]
  IN IF f.then = "deleted" THEN adjustIndexAfterDelete(h2, f.idx, f.len) ELSE h2

\* A list that puts the new recording first and never drops one.
addRecordingKeepsAll(list, recording) == <<recording>> \o list

\* addRecording: [recording, ...prev.slice(0, 4)]
addRecording(list, recording) ==
  <<recording>> \o SubSeq(list, 1, IF Len(list) < HistoryLimit - 1 THEN Len(list)
                                                                   ELSE HistoryLimit - 1)

\* The select of fetchRecordings: the rows of question q, newest first, limit 5.
selectRecordings(rows, q) ==
  LET mine == SelectSeq(rows, LAMBDA r : r.question_id = q)
  IN SubSeq(mine, 1, IF Len(mine) < HistoryLimit THEN Len(mine) ELSE HistoryLimit)

\* The effect of useRecordingHistory: after a render in which questionId differs from
\* the one of the previous render and is not '', fetchRecordings is called.
historyEffect(before, after) ==
  LET q == currentQuestion(after)
  IN IF q # currentQuestion(before) /\ q # NoQuestion
       THEN [after EXCEPT !.historyFetches = @ \cup {q}] ELSE after

\* The hook of an AudioRecorder that is unmounted: its state and refs are gone (the
\* next mount starts from the initial ones) and its pending timeouts can only reach
\* the state that is gone; nothing of the platform is released.
unmountHook(st) ==
  [ResetRefsAndState(st) EXCEPT !.streamRef = NoRef, !.intervalRef = NoRef,
                                !.audioContextRef = NoRef, !.fallbackTimers = {},
                                !.assembleTimers = {}]

\* What a render of App does to the recorder: the reset effect when AudioRecorder is
\* in the new view (its onQuestionChange prop is a new function on every render, and
\* on a mount every effect runs); an unmount when it was in the old view and is not
\* in the new one.
renderRecorder(st, before, after, fault) ==
  IF MainView(after) THEN forceReset(st, fault)
  ELSE IF MainView(before) THEN unmountHook(st)
  ELSE st

(* ------------------------------ actions ------------------------------- *)
Did(op, threw) == [op |-> op, threw |-> threw]

\* A call of stopRecording that found the recorder no longer recording ran
\* handleStopFallback itself: it is the only path of stopRecording that ends isRecording.
RanFallback(after) == recordingState.isRecording /\ ~after.recordingState.isRecording

\* Start button (rendered when not recording, disabled at the time limit):
\* handleStartRecording calls startRecording, which suspends at getUserMedia.
HandleStartRecording ==
  /\ MainView(Host)
  /\ ~recordingState.isRecording
  /\ recordingState.duration < TimeLimit
  /\ nextId + pendingStarts <= MaxStarts
  /\ pendingStarts' = pendingStarts + 1
  /\ last' = Did("startCall", FALSE)
  /\ Commit(St)
  /\ UNCHANGED savesInFlight

\* recordingState.isRecording in the closure of a startRecording that was called: the
\* Start button is rendered only in a render with isRecording false, and that render's
\* startRecording is the one its click calls.
StartClosureIsRecording == FALSE

\* getUserMedia resolves with a stream; the rest of startRecording runs.
StartGranted ==
  /\ pendingStarts > 0
  /\ \E failAt \in SetupSteps, sample \in {0, 1} :
       LET res == startGranted(St, failAt, sample, StartClosureIsRecording)
       IN /\ Commit(res.st)
          /\ last' = Did("start", res.threw)
  /\ pendingStarts' = pendingStarts - 1
  /\ UNCHANGED savesInFlight

\* getUserMedia rejects: startRecording throws, handleStartRecording alerts.
StartDenied ==
  /\ pendingStarts > 0
  /\ pendingStarts' = pendingStarts - 1
  /\ last' = Did("start", TRUE)
  /\ Commit(St)
  /\ UNCHANGED savesInFlight

\* A setInterval callback: duration + 1; the render that follows runs the auto-stop effect.
IntervalTick ==
  /\ recordingState.duration < MaxDuration
  /\ \E i \in activeIntervals \ unmounted :
       LET ticked == [St EXCEPT !.recordingState.duration = @ + 1]
       IN /\ Commit(AutoStopEffect(ticked))
          /\ last' = Did(IF RanFallback(AutoStopEffect(ticked)) THEN "fallback" ELSE "tick",
                         FALSE)
  /\ UNCHANGED <<pendingStarts, savesInFlight>>

\* Stop button (rendered while recordingState.isRecording).
StopRecording ==
  /\ MainView(Host)
  /\ recordingState.isRecording
  /\ Commit(stopRecording(St))
  /\ last' = Did(IF RanFallback(stopRecording(St)) THEN "fallback" ELSE "stop", FALSE)
  /\ UNCHANGED <<pendingStarts, savesInFlight>>

\* mediaRecorder.ondataavailable: a timeslice chunk while recording, or the final
\* chunk queued by stop().
OnDataAvailable ==
  /\ \E r \in Ids \ unmounted, size \in {0, ChunkSize} :
       LET final == recorders[r].flush = "data"
       IN /\ \/ final
             \/ recorders[r].state = "recording" /\ recorders[r].sent < MaxChunks /\ size > 0
          /\ Commit(ondataavailable(St, r, size))
          /\ last' = Did("data", FALSE)
  /\ UNCHANGED <<pendingStarts, savesInFlight>>

\* The recorder's stop event: the wrapper installed by stopRecording clears the
\* fallback timeout, then the original handler arms the 100 ms assembly timeout.
OnStop ==
  /\ \E r \in Ids \ unmounted :
       /\ recorders[r].flush = "stop"
       /\ Commit([St EXCEPT !.fallbackTimers =
                              IF recorders[r].onstop = "wrapped" THEN @ \ {r} ELSE @,
                            !.assembleTimers = @ \cup {r},
                            !.recorders[r].flush = "done"])
       /\ last' = Did("onstop", FALSE)
  /\ UNCHANGED <<pendingStarts, savesInFlight>>

\* The 100 ms timeout armed by onstop fires.
OnStopDelayed ==
  /\ \E r \in assembleTimers :
       /\ Commit([onstopDelayed(St) EXCEPT !.assembleTimers = @ \ {r}])
       /\ last' = Did("assemble", FALSE)
  /\ UNCHANGED <<pendingStarts, savesInFlight>>

\* The 2000 ms fallback timeout armed by stopRecording fires.
FallbackTimeout ==
  /\ \E r \in fallbackTimers :
       /\ Commit([handleStopFallback(St) EXCEPT !.fallbackTimers = @ \ {r}])
       /\ last' = Did("fallback", FALSE)
  /\ UNCHANGED <<pendingStarts, savesInFlight>>

\* The release steps that can throw in the state st: MediaRecorder.stop() raises
\* InvalidStateError on an inactive recorder in some browsers and returns silently
\* in others; no other release step throws on the platform.
PlatformFaults(st) ==
  {"none"} \cup
  (IF /\ st.mediaRecorderRef # NoRef
      /\ st.recordingState.isRecording
      /\ st.recorders[st.mediaRecorderRef].state = "inactive"
     THEN {"stop"} ELSE {})

\* Clear button (rendered while recordingState.audioUrl is set).
ClearRecording ==
  /\ MainView(Host)
  /\ recordingState.audioUrl # NoUrl
  /\ \E fault \in PlatformFaults(St) :
       LET res == clearRecording(St, fault)
       IN /\ Commit(res.st)
          /\ last' = Did("clear", res.threw)
  /\ UNCHANGED <<pendingStarts, savesInFlight>>

\* The reset effect of AudioRecorder: runs whenever the onQuestionChange prop changes.
ForceReset ==
  /\ MainView(Host)
  /\ \E fault \in PlatformFaults(St) :
       /\ Commit(forceReset(St, fault))
       /\ last' = Did("reset", FALSE)
  /\ UNCHANGED <<pendingStarts, savesInFlight>>

\* Save button (rendered while audioUrl is set, disabled while isUploading):
\* handleSaveRecording up to its first await.
HandleSaveRecording ==
  /\ MainView(Host)
  /\ recordingState.audioUrl # NoUrl
  /\ ~recordingState.isUploading
  /\ savesInFlight < MaxSaves
  /\ IF getAudioBlob(St) = <<>>
       THEN Commit(St) /\ UNCHANGED savesInFlight
       ELSE /\ CommitHook([St EXCEPT !.recordingState.isUploading = TRUE])
            /\ CommitHost([Host EXCEPT !.savingFor = Append(@, currentQuestion(Host))])
            /\ savesInFlight' = savesInFlight + 1
  /\ last' = Did("saveCall", FALSE)
  /\ UNCHANGED pendingStarts

\* A failure path that also drops the recording.
saveFailedDiscards(st) ==
  [ResetRefsAndState(st) EXCEPT !.recordingState.isUploading = FALSE]

\* handleSaveRecording after a failed upload or insert: the catch alerts, and
\* finally: setIsUploading(false).
saveFailed(st) ==
  [st EXCEPT !.recordingState.isUploading = FALSE]

\* handleSaveRecording after upload and insert went through: onRecordingComplete adds
\* the recording to the history, App renders again with a new onQuestionChange
\* function and the reset effect of AudioRecorder runs. finally: setIsUploading(false).
saveSucceeded(st, fault) ==
  forceReset([st EXCEPT !.recordingState.isUploading = FALSE], fault)

\* seq without its i-th element.
Remove(seq, i) == SubSeq(seq, 1, i - 1) \o SubSeq(seq, i + 1, Len(seq))

\* The host's side of a save that went through: the row inserted for the question of
\* the closure, and handleRecordingComplete -> addRecording of that row.
recordingSaved(h, i) ==
  LET row == Recording(Len(h.dbRecordings) + 1, h.savingFor[i])
  IN [h EXCEPT !.dbRecordings = <<row>> \o @,
               !.recordings = addRecording(@, row),
               !.savingFor = Remove(@, i)]

\* The upload and the insert settle, one way or the other. When App is not showing
\* its main view the render that addRecording causes reaches no AudioRecorder.
SaveSettled ==
  /\ savesInFlight > 0
  /\ savesInFlight' = savesInFlight - 1
  /\ \E i \in DOMAIN savingFor, ok \in BOOLEAN :
       /\ \E fault \in PlatformFaults(St) :
            CommitHook(IF ~ok THEN saveFailed(St)
                       ELSE IF MainView(Host) THEN saveSucceeded(St, fault)
                       ELSE St)
       /\ CommitHost(IF ok THEN recordingSaved(Host, i)
                            ELSE [Host EXCEPT !.savingFor = Remove(@, i)])
       /\ last' = Did(IF ok THEN "saved" ELSE "saveFailed", FALSE)
  /\ UNCHANGED pendingStarts

\* A step of App: its state goes to h, and when that renders App the effects of the
\* render run: useRecordingHistory's fetch effect, and AudioRecorder's reset effect or
\* its unmount. An unmount also takes QuestionDisplay and its isDeleting away, and the
\* startRecording calls suspended in the unmounted hook are not followed further.
HostStep(h, renders, op) ==
  LET after == IF renders THEN historyEffect(Host, h) ELSE h
      leaving == renders /\ MainView(Host) /\ ~MainView(after)
  IN /\ \E fault \in PlatformFaults(St) :
          CommitHook(IF renders THEN renderRecorder(St, Host, after, fault) ELSE St)
     /\ CommitHost(IF leaving
                     THEN [after EXCEPT !.unmounted = 1 .. (nextId - 1), !.isDeleting = FALSE]
                     ELSE after)
     /\ pendingStarts' = IF leaving THEN 0 ELSE pendingStarts
     /\ last' = Did(op, FALSE)
     /\ UNCHANGED savesInFlight

\* The select of a fetchQuestions call returns, with rows or with an error.
FetchQuestionsSettled ==
  \E f \in questionFetches, ok \in BOOLEAN :
    HostStep(fetchQuestionsSettled(Host, f, ok), TRUE, "questions")

\* Retry button of ErrorMessage (shown for an error and for no current question).
Retry ==
  /\ ~showBulkEntry /\ ~loading
  /\ error \/ currentQuestion(Host) = NoQuestion
  /\ HostStep(fetchQuestions(Host, "none", 0, 0), TRUE, "retry")

\* Next button (disabled when currentIndex >= totalQuestions): handleNext -> nextQuestion.
NextQuestion ==
  /\ MainView(Host)
  /\ currentQuestionIndex + 1 < Len(questions)
  /\ HostStep(nextQuestion(Host).h, nextQuestion(Host).ok, "next")

\* Previous button (disabled when currentIndex <= 1): handlePrevious -> previousQuestion.
PreviousQuestion ==
  /\ MainView(Host)
  /\ currentQuestionIndex + 1 > 1
  /\ HostStep(previousQuestion(Host).h, previousQuestion(Host).ok, "previous")

\* Jump form: handleJump with the number typed.
JumpToQuestion ==
  /\ MainView(Host)
  /\ \E n \in 0 .. MaxQuestions + 1 :
       HostStep(handleJump(Host, n).h,
                handleJump(Host, n).h.currentQuestionIndex # currentQuestionIndex, "jump")

\* QuestionSearch: a listed question is picked, jumpToQuestion gets its serial number.
SelectQuestion ==
  /\ MainView(Host)
  /\ \E i \in DOMAIN questions :
       HostStep(jumpToQuestion(Host, questions[i]).h,
                jumpToQuestion(Host, questions[i]).h.currentQuestionIndex
                  # currentQuestionIndex, "select")

\* Add Questions button: setShowBulkEntry(true).
ShowBulkEntry ==
  /\ MainView(Host)
  /\ HostStep([Host EXCEPT !.showBulkEntry = TRUE], TRUE, "bulk")

\* onBack of BulkQuestionEntry: setShowBulkEntry(false).
HideBulkEntry ==
  /\ showBulkEntry
  /\ HostStep([Host EXCEPT !.showBulkEntry = FALSE], TRUE, "back")

\* Delete, then Yes, in QuestionDisplay: handleDelete up to its await. Its closure
\* holds question.id and the handleQuestionDeleted of the current render of App.
HandleDelete ==
  /\ MainView(Host)
  /\ ~isDeleting
  /\ Cardinality(dbQuestions) > MaxQuestions - MaxDeletes
  /\ HostStep([Host EXCEPT !.isDeleting = TRUE,
                           !.deletes = @ \cup {[id |-> currentQuestion(Host),
                                                idx |-> currentQuestionIndex,
                                                len |-> Len(questions)]}],
              FALSE, "deleteCall")

\* The delete returns: on success handleQuestionDeleted starts its fetchQuestions.
DeleteSettled ==
  \E d \in deletes, ok \in BOOLEAN :
    LET h1 == [Host EXCEPT !.deletes = @ \ {d}, !.isDeleting = FALSE]
    IN HostStep(IF ok THEN fetchQuestions([h1 EXCEPT !.dbQuestions = @ \ {d.id}],
                                          "deleted", d.idx, d.len)
                      ELSE h1,
                ok, "deleted")

\* The select of a fetchRecordings call returns, with rows or with an error.
HistoryFetchSettled ==
  \E q \in historyFetches, ok \in BOOLEAN :
    HostStep([Host EXCEPT !.historyFetches = @ \ {q},
                          !.recordings = IF ok THEN selectRecordings(dbRecordings, q) ELSE @],
             TRUE, "history")

\* The recorder's lifecycle: the hook, the platform callbacks, the buttons and effects.
NextCore ==
  \/ HandleStartRecording
  \/ StartGranted
  \/ StartDenied
  \/ IntervalTick
  \/ StopRecording
  \/ OnDataAvailable
  \/ OnStop
  \/ OnStopDelayed
  \/ FallbackTimeout
  \/ ClearRecording
  \/ ForceReset

Next ==
  \/ NextCore
  \/ HandleSaveRecording
  \/ SaveSettled

Spec == Init /\ [][Next]_vars

\* App from its first render on: the views it switches between, navigation and
\* deletion, with a capture started now and then (the recorder's own callbacks, which
\* change nothing of App, are left to Spec).
NavNext ==
  \/ FetchQuestionsSettled
  \/ Retry
  \/ NextQuestion
  \/ PreviousQuestion
  \/ JumpToQuestion
  \/ SelectQuestion
  \/ ShowBulkEntry
  \/ HideBulkEntry
  \/ HandleDelete
  \/ DeleteSettled
  \/ HandleStartRecording
  \/ StartGranted

NavSpec == AppInit /\ [][NavNext]_vars

\* Start button, for the first HistoryStarts captures.
HistoryStart ==
  /\ nextId + pendingStarts <= HistoryStarts
  /\ HandleStartRecording

\* App from its first render on: navigation, the history list and its fetches, and a
\* capture that is recorded, stopped and saved.
HistoryNext ==
  \/ FetchQuestionsSettled
  \/ NextQuestion
  \/ PreviousQuestion
  \/ JumpToQuestion
  \/ SelectQuestion
  \/ HistoryFetchSettled
  \/ HistoryStart
  \/ StartGranted
  \/ OnDataAvailable
  \/ StopRecording
  \/ OnStop
  \/ OnStopDelayed
  \/ FallbackTimeout
  \/ HandleSaveRecording
  \/ SaveSettled

HistorySpec == AppInit /\ [][HistoryNext]_vars

\* The lifecycle alone (saving touches it only through the reset effect, which
\* NextCore takes at any time), with timeouts that are armed and not cleared firing.
FairSpec ==
  Init /\ [][NextCore]_vars /\ WF_vars(FallbackTimeout) /\ WF_vars(OnStopDelayed)

(* ------------------------ the session, as seen ------------------------ *)
\* The lifecycle state of the spec, read off the hook's state. Failed and Idle are the
\* same state of the hook (not recording, no audioUrl).
Status ==
  IF recordingState.isRecording
    THEN IF mediaRecorderRef # NoRef /\ recorders[mediaRecorderRef].state = "recording"
           THEN "Capturing" ELSE "Stopping"
    ELSE IF recordingState.audioUrl # NoUrl THEN "Ready" ELSE "Idle"

\* The non-empty chunks recorder r has delivered, in arrival order.
SessionChunks(r) == [k \in 1 .. recorders[r].sent |-> Chunk(r, k)]

\* The last step resolved a stop: the delayed onstop callback or handleStopFallback ran
\* for the session whose recorder is in mediaRecorderRef and has been stopped.
StopResolved ==
  /\ last.op \in {"assemble", "fallback"}
  /\ mediaRecorderRef # NoRef
  /\ recorders[mediaRecorderRef].state = "inactive"

(* ------------------------------ claims -------------------------------- *)
\* C1: when a stop resolves and the session's recorder had delivered at least one
\* non-empty chunk, the session is Ready and its artifact is the concatenation of
\* exactly that session's chunks, in arrival order.
C1_ArtifactIsSessionChunks ==
  (StopResolved /\ recorders[mediaRecorderRef].sent > 0) =>
    /\ Status = "Ready"
    /\ artifact = Blob(SessionChunks(mediaRecorderRef))

\* C2: when a stop resolves with no chunk held, the session is not recording and has
\* no artifact handle, also when an earlier session had produced one.
C2_EmptyCaptureFails ==
  (StopResolved /\ chunksRef = <<>>) =>
    ~recordingState.isRecording /\ recordingState.audioUrl = NoUrl

\* C3: the artifact handle is present exactly when the session is Ready.
C3_HandleIffReady ==
  recordingState.audioUrl # NoUrl <=> Status = "Ready"

\* stopRecording has stopped the recorder of the current session (it installed its
\* onstop wrapper and armed the fallback timeout) and the stop is not resolved yet.
Stopping ==
  /\ recordingState.isRecording
  /\ mediaRecorderRef # NoRef
  /\ recorders[mediaRecorderRef].state = "inactive"
  /\ recorders[mediaRecorderRef].onstop = "wrapped"

\* C4: a session that stop() has put in Stopping leaves it, whether or not the
\* recorder's stop event ever fires; and when handleStopFallback has run the session
\* is not recording, Ready with the blob of the chunks held if there are any, without
\* a handle if there are none.
C4_StoppingResolves ==
  /\ Stopping ~> ~recordingState.isRecording
  /\ [](last.op = "fallback" =>
          /\ ~recordingState.isRecording
          /\ chunksRef # <<>> => (Status = "Ready" /\ artifact = Blob(chunksRef))
          /\ chunksRef = <<>> => recordingState.audioUrl = NoUrl)

\* C5: once a stop is resolved (the stopped recorder is still the session's and the
\* session is no longer recording), a further resolution, by the delayed onstop
\* callback or by handleStopFallback, changes no session state and creates no object URL.
C5_ResolvedOnce ==
  [][(/\ last'.op \in {"assemble", "fallback"}
      /\ mediaRecorderRef # NoRef
      /\ mediaRecorderRef' = mediaRecorderRef
      /\ recorders[mediaRecorderRef].state = "inactive"
      /\ ~recordingState.isRecording)
     => (recordingState' = recordingState /\ nextUrl' = nextUrl)]_vars

\* What a caller can see of the session in the state st: recording or not, handle
\* present or not, the artifact's content, duration, amplitude.
SessionView(st) ==
  [isRecording |-> st.recordingState.isRecording,
   hasUrl |-> st.recordingState.audioUrl # NoUrl,
   artifact |-> st.artifact,
   duration |-> st.recordingState.duration,
   audioLevel |-> st.audioLevel]

\* C6: while a stop is pending, resolving it through the delayed onstop callback and
\* through handleStopFallback give the same session state.
C6_EitherWinnerSameState ==
  Stopping => SessionView(onstopDelayed(St)) = SessionView(handleStopFallback(St))

\* The state clear() and reset() are to leave.
IdleState ==
  /\ Status = "Idle"
  /\ recordingState.duration = 0
  /\ recordingState.audioUrl = NoUrl
  /\ audioLevel = 0
  /\ chunksRef = <<>>

\* C7: when clearRecording or forceReset has returned, the session is Idle with
\* duration 0, amplitude 0, no chunks and no handle.
C7_ClearResetYieldIdle ==
  last.op \in {"clear", "reset"} => IdleState

\* What a clear or reset that started in the state before must have released in the
\* state after when its release step fault threw: the stream, the interval and the
\* object URL the hook held, but for the one whose own release threw.
Released(before, after, fault) ==
  /\ (before.streamRef # NoRef /\ fault # "track") =>
       before.streamRef \notin after.liveStreams
  /\ before.intervalRef # NoRef => before.intervalRef \notin after.activeIntervals
  /\ (before.recordingState.audioUrl # NoUrl /\ fault # "revoke") =>
       before.recordingState.audioUrl \notin after.objectUrls

\* C8: in every state, whichever single release step throws, clearRecording (when the
\* Clear button is there) and forceReset return without throwing and have released
\* the stream, the interval and the handle.
C8_ReleaseStepsIndependent ==
  \A f \in Faults :
    /\ recordingState.audioUrl # NoUrl =>
         /\ ~clearRecording(St, f).threw
         /\ Released(St, clearRecording(St, f).st, f)
    /\ Released(St, forceReset(St, f), f)

\* The step is a callback of recorder r: its dataavailable or stop event, or a timeout
\* armed for it.
CallbackOf(r) ==
  /\ last'.op \in {"data", "onstop", "assemble", "fallback"}
  /\ \/ recorders'[r] # recorders[r]
     \/ r \in fallbackTimers /\ r \notin fallbackTimers'
     \/ r \in assembleTimers /\ r \notin assembleTimers'

\* Recorder r was stopped by clearRecording or forceReset, which then dropped it from
\* mediaRecorderRef: stopRecording would have installed its onstop wrapper first.
DetachedByReset(r) ==
  /\ r # mediaRecorderRef
  /\ recorders[r].state = "inactive"
  /\ recorders[r].onstop = "original"

\* C9: a callback of a recorder that a clear or reset has detached from the hook
\* changes neither the session state nor the chunks nor the amplitude, before the next
\* start and after it.
C9_StaleCallbacksInert ==
  [][\A r \in Ids :
       (DetachedByReset(r) /\ CallbackOf(r)) =>
         /\ recordingState' = recordingState
         /\ chunksRef' = chunksRef
         /\ audioLevel' = audioLevel]_vars

\* C10: at most one stream is live, at most one recorder is recording and at most one
\* interval is armed.
C10_OneLiveDevice ==
  /\ Cardinality(liveStreams) <= 1
  /\ Cardinality({r \in Ids : recorders[r].state = "recording"}) <= 1
  /\ Cardinality(activeIntervals) <= 1

\* C11: in every state that is not Capturing, a call of stopRecording leaves the hook
\* and the platform as they are: no state change, no timer armed, no object URL made.
C11_StopNoOpUnlessCapturing ==
  Status # "Capturing" => stopRecording(St) = St

\* C12: duration grows only in a step taken while Capturing, by exactly 1, as the tick
\* of the one armed interval, the one in intervalRef; so not after a stop or a reset.
C12_DurationTicksWhileCapturing ==
  [][recordingState'.duration > recordingState.duration =>
       /\ recordingState'.duration = recordingState.duration + 1
       /\ Status = "Capturing"
       /\ activeIntervals = {intervalRef}]_vars

\* The auto-stop effect has work to do: recording at or past the time limit.
AtTimeLimit == recordingState.isRecording /\ recordingState.duration >= TimeLimit

DeniedStep ==
  /\ last'.op = "start"
  /\ pendingStarts' = pendingStarts - 1
  /\ nextId' = nextId

\* C14: a startRecording call whose getUserMedia is rejected throws to its caller,
\* leaves the session Idle and arms nothing: no interval, recorder or analyser that
\* was not there before.
C14_DeniedStartLeavesIdle ==
  [][DeniedStep =>
       /\ last'.threw
       /\ Status' = "Idle"
       /\ activeIntervals' = activeIntervals
       /\ recorders' = recorders
       /\ openContexts' = openContexts
       /\ analyserRef' = analyserRef]_vars

\* The last step was a startRecording call that ran to its end.
StartSucceeded == last.op = "start" /\ ~last.threw

\* C15: when startRecording has succeeded the session is Capturing, duration is 0 and
\* the chunk list is empty.
C15_StartResets ==
  StartSucceeded =>
    /\ Status = "Capturing"
    /\ recordingState.duration = 0
    /\ chunksRef = <<>>

\* C15 witness: a second session started from Ready, after a session that had
\* delivered chunks and published an artifact.
C15_Witness ==
  /\ StartSucceeded
  /\ mediaRecorderRef = 2
  /\ recorders[1].sent > 0
  /\ recorders[1].state = "inactive"
  /\ recordingState.audioUrl # NoUrl
  /\ Status = "Capturing"

\* C16: the step in which a save fails changes nothing of the session but the
\* uploading flag, which it sets to false: status, duration, handle, chunks and the
\* artifact stay, so a Ready session has its Save button enabled again.
C16_FailedSaveKeepsArtifact ==
  [][last'.op = "saveFailed" =>
       /\ recordingState' = [recordingState EXCEPT !.isUploading = FALSE]
       /\ chunksRef' = chunksRef
       /\ artifact' = artifact
       /\ objectUrls' = objectUrls
       /\ mediaRecorderRef' = mediaRecorderRef]_vars

\* C16 witness: a save failed on a Ready session that still has its chunks and handle.
C16_Witness ==
  /\ last.op = "saveFailed"
  /\ Status = "Ready"
  /\ chunksRef # <<>>
  /\ artifact = Blob(chunksRef)
  /\ recordingState.audioUrl \in objectUrls
  /\ ~recordingState.isUploading

\* C17: at most one handleSaveRecording call is between its first await and its
\* finally, and while one is the uploading flag is set (the Save button is disabled).
C17_OneSaveInFlight ==
  /\ savesInFlight <= 1
  /\ savesInFlight > 0 => recordingState.isUploading

\* The Start button is rendered and enabled.
StartOffered == ~recordingState.isRecording /\ recordingState.duration < TimeLimit

\* C18: when a stop has resolved with no chunk held and the session is Failed (not
\* recording, no handle), the Start button is rendered and enabled.
C18_FailedIsRetryable ==
  (StopResolved /\ chunksRef = <<>> /\ Status = "Idle") => StartOffered

\* C19: when the reset effect has run (the question changed), the session is Idle with
\* duration 0, no handle and no chunks, and no stream is live, no recorder is
\* recording and no interval is armed.
C19_QuestionChangeResets ==
  last.op = "reset" =>
    /\ IdleState
    /\ liveStreams = {}
    /\ activeIntervals = {}
    /\ \A r \in Ids : recorders[r].state # "recording"

\* C20: when stopRecording has stopped a capturing recorder, the interval the hook
\* held is cancelled, the stream it holds is not live and the AudioContext it holds
\* is closed.
C20_StopReleasesResources ==
  (last.op = "stop" /\ Stopping) =>
    /\ intervalRef = NoRef
    /\ streamRef \notin liveStreams
    /\ audioContextRef \notin openContexts

\* C21: in every state getAudioBlob returns nothing when no chunk is held, and otherwise
\* a blob as long as the chunks held together, whose bytes are those of the chunks in
\* the order they are held; it is a function of the state and changes none of it.
C21_GetAudioBlobIsSnapshot ==
  LET blob == getAudioBlob(St)
  IN /\ chunksRef = <<>> => blob = <<>>
     /\ chunksRef # <<>> =>
          /\ Len(blob) = ChunkSize * Len(chunksRef)
          /\ \A i \in 1 .. Len(blob) :
               LET c == chunksRef[((i - 1) \div ChunkSize) + 1]
               IN blob[i] = <<c.rec, c.seq, ((i - 1) % ChunkSize) + 1>>

\* C21 witness: mid-capture, with two chunks held: the snapshot is partial.
C21_Witness ==
  /\ Status = "Capturing"
  /\ Len(chunksRef) = 2
  /\ Len(getAudioBlob(St)) = 2 * ChunkSize

\* C22: while the session is Capturing the amplitude loop is alive: updateAudioLevel
\* has its next frame requested for the analyser of the session.
C22_AmplitudeLoopRunsWhileCapturing ==
  Status = "Capturing" => analyserRef \in animationFrames

\* The chunk list a is an initial part of the chunk list b.
IsPrefix(a, b) == Len(a) <= Len(b) /\ \A i \in 1 .. Len(a) : a[i] = b[i]

C25_OnlyStopClearResetEndCapture ==
  [][/\ (Status = "Capturing" /\ Status' # "Capturing")
          => last'.op \in {"stop", "tick", "fallback", "assemble", "clear", "reset"}
     /\ (Status = "Capturing" /\ last'.op \in {"saved", "saveFailed"})
          => SessionView(St') = SessionView(St)]_vars

\* C27: every object URL that has been created and not revoked is the one in
\* recordingState.audioUrl, so at most one is outstanding.
C27_OneUnrevokedUrl ==
  /\ objectUrls \subseteq {recordingState.audioUrl}
  /\ Cardinality(objectUrls) <= 1

\* C28: when startRecording throws after getUserMedia granted a stream (a step that
\* hands out the stream nextId and throws), the stream and the AudioContext that start
\* acquired are not live afterwards, and a session that was not Capturing is not
\* Capturing.
C28_FailedStartReleases ==
  [][(last'.op = "start" /\ last'.threw /\ nextId' = nextId + 1) =>
       /\ nextId \notin liveStreams'
       /\ nextId \notin openContexts'
       /\ Status # "Capturing" => Status' # "Capturing"]_vars

\* C24: the history list never holds more than HistoryLimit recordings, and a save that
\* goes through leaves the list with the inserted row first, followed by the recordings
\* held before in their order, the last of them dropped when HistoryLimit were held.
C24_HistoryAtMostFive ==
  /\ [](Len(recordings) <= HistoryLimit)
  /\ [][last'.op = "saved" =>
          /\ Len(recordings') = (IF Len(recordings) < HistoryLimit
                                   THEN Len(recordings) + 1 ELSE HistoryLimit)
          /\ recordings'[1] = Head(dbRecordings')
          /\ Head(dbRecordings') \notin {dbRecordings[k] : k \in DOMAIN dbRecordings}
          /\ \A k \in 2 .. Len(recordings') : recordings'[k] = recordings[k - 1]]_vars

\* C24 witness: a save went through while the list held HistoryLimit fetched
\* recordings: the new row is first and the oldest of the five is gone.
C24_Witness ==
  /\ last.op = "saved"
  /\ Len(recordings) = HistoryLimit
  /\ recordings[1].id = StoredRecordings + 1
  /\ recordings[HistoryLimit].id = StoredRecordings + 2 - HistoryLimit

\* No fetch of questions or of recordings and no save is in flight.
Settled == questionFetches = {} /\ historyFetches = {} /\ savingFor = <<>> /\ deletes = {}

\* C29: when nothing is in flight and App shows its main view, every recording in the
\* history list belongs to the current question.
C29_HistoryIsOfCurrentQuestion ==
  (Settled /\ MainView(Host)) =>
    \A k \in DOMAIN recordings : recordings[k].question_id = currentQuestion(Host)

\* No delete and no fetch of questions is in flight.
NavigationSettled == questionFetches = {} /\ deletes = {}

\* C30: whenever no delete or refetch is in flight and the question list is not empty,
\* the current index is one of its positions; and in every state nextQuestion at the
\* last position, previousQuestion at the first and jumpToQuestion with a serial
\* number that is not in the list return false and leave the state as it is.
C30_IndexInRange ==
  /\ (NavigationSettled /\ questions # <<>>) =>
       currentQuestionIndex \in 0 .. Len(questions) - 1
  /\ currentQuestionIndex >= Len(questions) - 1 =>
       nextQuestion(Host) = [h |-> Host, ok |-> FALSE]
  /\ currentQuestionIndex = 0 => previousQuestion(Host) = [h |-> Host, ok |-> FALSE]
  /\ \A n \in 0 .. MaxQuestions + 1 :
       (\A i \in DOMAIN questions : questions[i] # n) =>
         jumpToQuestion(Host, n) = [h |-> Host, ok |-> FALSE]

\* C26: whenever App is not showing its main view (AudioRecorder is not mounted), no
\* stream is live and no one-second interval is armed.
C26_UnmountedHoldsNothing ==
  ~MainView(Host) => (liveStreams = {} /\ activeIntervals = {})
====
